---- MODULE Spec2Model ----
(***************************************************************************)
(* The crawl orchestration core of the TotalJobs scraper.                  *)
(*                                                                         *)
(* Two revisions of the actor are modelled side by side, selected by the   *)
(* variable `variant`:                                                     *)
(*   "part0" : src/unnamed/part_000 (saveJobRecord, savedJobUrls, listing  *)
(*             requeue and scheduleNextPageFallback)                       *)
(*   "main"  : src/src/main.js, lines 1-652 (three-method pagination,      *)
(*             seenJobUrls / seenPageUrls, direct Dataset.pushData)        *)
(* SpecP0 and SpecMain run one revision each, Spec runs either.  SpecRun   *)
(* is a run of main.js with its end: the final stats, or an exception      *)
(* that reaches the catch block of main.  SpecPure applies the field       *)
(* precedence of the detail branch and the URL classification on their     *)
(* own, to inputs drawn by its initial state.                              *)
(*                                                                         *)
(* A handler is cut at its awaits: every action is one synchronous         *)
(* segment of JavaScript, which node runs without interleaving.  The       *)
(* effect of an awaited storage call (enqueueLinks, addRequest,            *)
(* Dataset.pushData) is taken at the call.  The awaits of                  *)
(* failedRequestHandler that follow its last state change (the delays of   *)
(* the session handling) are not cut.                                      *)
(*                                                                         *)
(* The crawler takes requests from the head of a first-in first-out queue, *)
(* at most maxConcurrency at a time.  A fetch either succeeds, and         *)
(* requestHandler runs, or fails for good, and failedRequestHandler runs   *)
(* (the transport retries before that leave no trace in the state).  A     *)
(* handler throws only where an awaited enqueueLinks of the listing branch *)
(* rejects; the crawler then reclaims the request with retryCount + 1.     *)
(* enqueued is a history variable: it counts what the handlers handed to   *)
(* the queue under the default uniqueKey or as a next-page fallback, and   *)
(* the listing URLs that failed with their requeues used up.               *)
(*                                                                         *)
(* URLs are records: [t |-> "L", n |-> p] is the listing URL with          *)
(* ?page=p (n = 0: no page parameter), [t |-> "J", n |-> j] the detail     *)
(* URL of job j.  part_000 keeps one set seenUrls for both kinds; since    *)
(* no URL is of both kinds it is modelled as the two disjoint sets         *)
(* seenJobUrls and seenPageUrls.                                           *)
(***************************************************************************)
EXTENDS Integers, Sequences, FiniteSets, Bags, TLC

VARIABLES variant, collectDetails, saved, pagesVisited, seenJobUrls,
          seenPageUrls, failedUrls, savedJobUrls, dataset, requestQueue,
          running, enqueued, phase, OUTPUT, arg, result

vars == <<variant, collectDetails, saved, pagesVisited, seenJobUrls,
          seenPageUrls, failedUrls, savedJobUrls, dataset, requestQueue,
          running, enqueued, phase, OUTPUT, arg, result>>

\* a value of the key-value store record OUTPUT: keys is the set of keys
\* the object has, a key that is absent reads 0 or ""
Out(keys, status, error, jobsSaved, pages, jobUrls, pageUrls, failed) ==
    [keys |-> keys, status |-> status, error |-> error,
     jobsSaved |-> jobsSaved, pagesVisited |-> pages,
     uniqueJobUrls |-> jobUrls, uniquePageUrls |-> pageUrls,
     failedUrls |-> failed]

\* OUTPUT before Actor.setValue has run
NoOutput == Out({}, "", "", 0, 0, 0, 0, 0)

\* arg and result hold the input and the value of a function applied on its
\* own (SpecPure); a crawl leaves them alone
NoArg == [op |-> "none"]

NoResult == [op |-> "none"]

(* ------------------------------ inputs -------------------------------- *)

\* results_wanted of the run
RESULTS_WANTED == 1

\* max_pages of the run
MAX_PAGES == 2

\* number of distinct job postings the site lists
NumJobs == 3

\* handlers the crawler runs at once (maxConcurrency, never below 2)
maxConcurrency == 2

\* transport retries of the crawler
maxRequestRetries == 4

\* manual re-enqueues of a failed listing page
MaxRequeue == 2

Null == "null"

Jobs == 1..NumJobs

ListUrl(p) == [t |-> "L", n |-> p]

JobUrl(j) == [t |-> "J", n |-> j]

\* no URL (a null job_url)
NoUrl == [t |-> "none", n |-> 0]

(* ------------------------- the site (inputs) -------------------------- *)

Max(a, b) == IF a >= b THEN a ELSE b

Min(a, b) == IF a <= b THEN a ELSE b

\* the job shown at position k of the site's result list
JobAt(k) == ((k - 1) % NumJobs) + 1

\* page parameter -> page number (absent parameter: page 1)
PageOf(url) == IF url.n = 0 THEN 1 ELSE url.n

\* the job anchors of listing page p in document order: two postings, the
\* first one repeated at the end of the page; consecutive pages overlap
Links(p) == <<JobAt(p), JobAt(p + 1), JobAt(p)>>

\* the seed a listing page yields for job j: job 1's anchor has no text,
\* only job 2's container names a company
SeedOf(j) == [title |-> IF j = 1 THEN Null ELSE "T-seed",
              company |-> IF j = 2 THEN "C-seed" ELSE Null,
              present |-> TRUE]

\* the URL a detail fetch ends on (request.loadedUrl): job 2's link is a
\* second URL of job 1 and redirects to it
LoadedUrl(url) == IF url = JobUrl(2) THEN JobUrl(1) ELSE url

\* a fetched detail body: markup says what the page carries ("ld": a JSON-LD
\* JobPosting and the job markup, "bare": no title markup at all, "block":
\* only a heading), len is the length of $.html(), kw the offset at which
\* the first of the words access denied / blocked / captcha / error ends
\* (0: the body has none)
Body(markup, len, kw) == [markup |-> markup, len |-> len, kw |-> kw]

NoBody == Body("none", 0, 0)

\* bodies a detail fetch can return: a job page, a job page that has the
\* word "error" in its head, a page without title markup whose only keyword
\* lies past the scanned prefix, a 120-character captcha page
DetailBodies == {Body("ld", 1500, 0), Body("ld", 1500, 300),
                 Body("bare", 1500, 1200), Body("block", 120, 50)}

\* failure kinds of a fetch, by the message classes of failedRequestHandler
Kinds == {"blocked", "other"}

(* --------------------------- JavaScript bits --------------------------- *)

Truthy(v) == v \notin {Null, ""}

Or(a, b) == IF Truthy(a) THEN a ELSE b

Range(s) == {s[i] : i \in 1..Len(s)}

\* Array.prototype.slice(0, end)
Slice0(s, end) ==
    LET e == IF end < 0 THEN Max(Len(s) + end, 0) ELSE Min(end, Len(s))
    IN SubSeq(s, 1, e)

isDetailUrl(url) == url.t = "J"

isListUrl(url) == url.t = "L"

(* ------------------------ requests and records ------------------------ *)

\* a crawlee Request: key is the uniqueKey class ("default": the URL itself,
\* "start", "retry", "fallback": the keys the actor builds), tag is
\* userData.isListPage / isDetailPage of main.js
Req(url, key, seed, requeueAttempt, retryCount, tag) ==
    [url |-> url, key |-> key, seed |-> seed,
     requeueAttempt |-> requeueAttempt, retryCount |-> retryCount, tag |-> tag]

\* userData without a seed (the start request, pagination requests)
NoSeed == [title |-> Null, company |-> Null, present |-> FALSE]

\* a running handler, suspended at the await named by pc
H(req, pc, kind, rec, rest) ==
    [req |-> req, pc |-> pc, kind |-> kind, rec |-> rec, rest |-> rest,
     body |-> NoBody]

\* a running detail handler: the response body is at hand from its start
HD(req, pc, body, rec) == [H(req, pc, Null, rec, <<>>) EXCEPT !.body = body]

\* the record built from a listing seed (detail-only fields null)
fallbackRecord(seed, url) ==
    [title |-> seed.title, company |-> seed.company, job_type |-> Null,
     job_category |-> Null, description_html |-> Null,
     description_text |-> Null, job_url |-> url]

NoRec == fallbackRecord(NoSeed, NoUrl)

\* a push that replaces what the dataset held
PushReplace(ds, rec) == SetToBag({rec})

Push(ds, rec) == ds (+) SetToBag({rec})

LogKey(url, key) == [url |-> url, key |-> key]

\* a queue that forgets the uniqueKeys it was given
AcceptedAlways(log, r) == TRUE

\* RequestQueue.addRequest: a request whose uniqueKey is known is dropped;
\* the keys built with Date.now() are always new
Accepted(log, r) == r.key # "default" \/ ~BagIn(LogKey(r.url, "default"), log)

\* enqueued counts, per URL, the requests handed to the queue under their
\* default uniqueKey (the queue's memory of known keys) and the next pages
\* scheduleNextPageFallback handed to it
RECURSIVE LogRequests(_, _)
LogRequests(log, reqs) ==
    IF reqs = <<>> THEN log
    ELSE LogRequests(IF Head(reqs).key \in {"default", "fallback"}
                     THEN log (+) SetToBag({LogKey(Head(reqs).url,
                                                   Head(reqs).key)})
                     ELSE log,
                     Tail(reqs))

\* enqueued also remembers the listing URLs that failed with their requeues
\* used up (requeueAttempt at MaxRequeue), under the key "exhausted"
LogGaveUp(log, r) ==
    IF r.url.t = "L" /\ r.requeueAttempt >= MaxRequeue
       /\ ~BagIn(LogKey(r.url, "exhausted"), log)
    THEN log (+) SetToBag({LogKey(r.url, "exhausted")})
    ELSE log

\* the requests of reqs are added one by one; the queue is first in, first
\* out
RECURSIVE AddRequests(_, _, _)
AddRequests(q, log, reqs) ==
    IF reqs = <<>> THEN q
    ELSE AddRequests(IF Accepted(log, Head(reqs)) THEN Append(q, Head(reqs)) ELSE q,
                     LogRequests(log, <<Head(reqs)>>),
                     Tail(reqs))

\* detail pages enqueued whatever the input says
enqueueDetailsAlways(cd, jobLinks) == Len(jobLinks) > 0

\* if (collectDetails && jobLinks.length > 0)
enqueueDetails(cd, jobLinks) == cd /\ Len(jobLinks) > 0

\* link extraction without the seen / failed gate
NewLinksUngated(links, known) == links

\* the anchors of a page that pass the seen/failed gate, in document order
RECURSIVE NewLinks(_, _)
NewLinks(links, known) ==
    IF links = <<>> THEN <<>>
    ELSE IF JobUrl(Head(links)) \in known THEN NewLinks(Tail(links), known)
    ELSE <<Head(links)>> \o NewLinks(Tail(links), known \cup {JobUrl(Head(links))})

DetailReqs(jobs, tag) ==
    [i \in 1..Len(jobs) |-> Req(JobUrl(jobs[i]), "default", SeedOf(jobs[i]), 0, 0, tag)]

(* --------------------------- saveJobRecord ---------------------------- *)

\* guards that do not look at the quota
saveGuardsNoQuota(record, sv, sju) ==
    /\ record.job_url # NoUrl /\ Truthy(record.title)
    /\ record.job_url \notin sju

\* the three guards of saveJobRecord, on the counter sv and the set sju
saveGuards(record, sv, sju) ==
    /\ record.job_url # NoUrl /\ Truthy(record.title)
    /\ sv < RESULTS_WANTED
    /\ record.job_url \notin sju

\* saveJobRecord up to its await: TRUE iff the record goes to pushData
saveJobRecord(record) == saveGuards(record, saved, savedJobUrls)

listingRecord(j) == fallbackRecord(SeedOf(j), JobUrl(j))

\* the listing-save loop of collectDetails = false, run to its next await:
\* the jobs left once the refused ones are skipped (<<>>: loop over)
RECURSIVE SkipRefused(_, _, _)
SkipRefused(jobs, sv, sju) ==
    IF jobs = <<>> \/ sv >= RESULTS_WANTED THEN <<>>
    ELSE IF saveGuards(listingRecord(Head(jobs)), sv, sju)
         THEN jobs
         ELSE SkipRefused(Tail(jobs), sv, sju)

(* ------------------------------- Init --------------------------------- *)

\* part_000: the start request carries uniqueKey start:<url> and is not put
\* into seenUrls; the built start URL carries page=1
InitP0 ==
    /\ variant = "part0"
    /\ collectDetails \in BOOLEAN
    /\ saved = 0 /\ pagesVisited = 0
    /\ seenJobUrls = {} /\ seenPageUrls = {} /\ failedUrls = {}
    /\ savedJobUrls = {}
    /\ dataset = EmptyBag
    /\ requestQueue = <<Req(ListUrl(1), "start", NoSeed, 0, 0, "none")>>
    /\ running = {}
    /\ enqueued = EmptyBag
    /\ phase = "run" /\ OUTPUT = NoOutput
    /\ arg = NoArg /\ result = NoResult

(* --------------- the crawler (CheerioCrawler of crawlee) --------------- *)

\* the crawler takes the request at the head of the queue when a handler
\* slot is free
CanDispatch(r) ==
    /\ requestQueue # <<>> /\ r = Head(requestQueue)
    /\ Cardinality(running) < maxConcurrency

\* a queue that keeps a request pending while it is handled
RestKeep(r) == requestQueue

\* the queue once request r has been taken from it
Rest(r) == IF requestQueue # <<>> /\ Head(requestQueue) = r
           THEN Tail(requestQueue) ELSE requestQueue

(* ------------------- part_000: failedRequestHandler -------------------- *)

\* a seen test that never finds the URL
isSeenPageNever(url, seen) == FALSE

\* seenUrls.has(url) / seenPageUrls.has(url) on the set seen
isSeenPage(url, seen) == url \in seen

\* scheduleNextPageFallback on the sets seen (seenUrls) and failed
\* (failedUrls): the request it adds, if any
scheduleNextPageFallback(url, seen, failed) ==
    LET nextPageUrl == ListUrl(PageOf(url) + 1)
    IN IF PageOf(url) >= MAX_PAGES THEN <<>>
       ELSE IF isSeenPage(nextPageUrl, seen) \/ nextPageUrl \in failed
       THEN <<>>
       ELSE <<Req(nextPageUrl, "fallback", NoSeed, 0, 0, "none")>>

\* a failure that is neither 403/429/blocked, nor a timeout, nor a network error
Unclassified(kind) == kind = "other"

\* a requeue that passes the number on as it is
nextAttemptSame(requeueAttempt) == requeueAttempt

\* a requeue counter that wraps around at MaxRequeue
nextAttemptWrapped(requeueAttempt) == (requeueAttempt + 1) % MaxRequeue

\* the requeueAttempt a requeued listing request carries
nextAttempt(requeueAttempt) == requeueAttempt + 1

\* failedRequestHandler from the listing branch on (no await before it
\* for a listing page): requeue or give up and skip to the next page;
\* q, failed0, seen0: the queue, failedUrls and seenUrls it starts from
FailedTail(q, r, kind, failed0, seen0) ==
    LET url == r.url
        requeue == r.requeueAttempt < MaxRequeue /\ saved < RESULTS_WANTED
        fb == scheduleNextPageFallback(url, seen0, failed0 \cup {url})
        adds == IF ~isListUrl(url) THEN <<>>
                ELSE IF requeue
                     THEN <<Req(url, "retry", r.seed, nextAttempt(r.requeueAttempt),
                                0, r.tag)>>
                     ELSE fb
    IN /\ requestQueue' = AddRequests(q, enqueued, adds)
       /\ enqueued' = LogGaveUp(LogRequests(enqueued, adds), r)
       /\ seenPageUrls' = IF isListUrl(url) /\ ~requeue
                          THEN seen0 \cup {x.url : x \in Range(fb)}
                          ELSE seen0
       /\ failedUrls' = failed0
                        \cup (IF isListUrl(url) /\ ~requeue THEN {url} ELSE {})
                        \cup (IF Unclassified(kind) THEN {url} ELSE {})

\* the failed-request handler of part_000 up to its first await; run0: the
\* handlers running beside it
FailedStart(q, r, kind, run0, seen0) ==
    LET rec == fallbackRecord(r.seed, r.url)
    IN IF isDetailUrl(r.url) /\ collectDetails /\ r.seed.present
          /\ r.url \notin failedUrls /\ saveJobRecord(rec)
       THEN /\ dataset' = Push(dataset, rec)
            /\ running' = run0 \cup {H(r, "failSave", kind, rec, <<>>)}
            /\ requestQueue' = q
            /\ seenPageUrls' = seen0
            /\ UNCHANGED <<saved, savedJobUrls, failedUrls, enqueued>>
       ELSE /\ FailedTail(q, r, kind, failedUrls, seen0)
            /\ running' = run0
            /\ UNCHANGED <<saved, savedJobUrls, dataset>>

\* the fetch of r fails for good (every transport retry failed)
failedRequestHandler(r, kind) ==
    /\ variant = "part0"
    /\ CanDispatch(r)
    /\ FailedStart(Rest(r), r, kind, running, seenPageUrls)
    /\ UNCHANGED <<phase, OUTPUT, arg, result>>
    /\ UNCHANGED <<variant, collectDetails, pagesVisited, seenJobUrls>>

\* saveJobRecord resumes after pushData in the failed-request handler
failedSaveDone(h) ==
    /\ variant = "part0"
    /\ h \in running /\ h.pc = "failSave"
    /\ savedJobUrls' = savedJobUrls \cup {h.rec.job_url}
    /\ saved' = saved + 1
    /\ running' = running \ {h}
    /\ FailedTail(requestQueue, h.req, h.kind, failedUrls \cup {h.req.url},
                  seenPageUrls)
    /\ UNCHANGED <<phase, OUTPUT, arg, result>>
    /\ UNCHANGED <<variant, collectDetails, pagesVisited, seenJobUrls, dataset>>

(* --------------------- part_000: requestHandler ------------------------ *)

\* the crawler's answer to a handler that threw: the request is reclaimed
\* with retryCount + 1, or handed to failedRequestHandler once the retries
\* are used up
HandlerThrew(q, r, kind, run0, seen0) ==
    IF r.retryCount < maxRequestRetries
    THEN /\ requestQueue' = Append(q, [r EXCEPT !.retryCount = @ + 1])
         /\ seenPageUrls' = seen0
         /\ running' = run0
         /\ UNCHANGED <<saved, savedJobUrls, failedUrls, enqueued, dataset>>
    ELSE FailedStart(q, r, kind, run0, seen0)

\* how many detail links a listing page may enqueue
bufferSize == Max(1, (3 * Max(0, RESULTS_WANTED - saved) + 1) \div 2)

\* a listing page is handed to requestHandler; enqOk = FALSE: the awaited
\* enqueueLinks rejects and the handler throws
listPage(r, enqOk, kind) ==
    /\ variant = "part0"
    /\ CanDispatch(r) /\ isListUrl(r.url)
    /\ UNCHANGED <<phase, OUTPUT, arg, result>>
    /\ UNCHANGED <<variant, collectDetails>>
    /\ IF saved >= RESULTS_WANTED
       THEN /\ enqOk
            /\ requestQueue' = Rest(r)
            /\ UNCHANGED <<saved, pagesVisited, seenJobUrls, seenPageUrls,
                           failedUrls, savedJobUrls, dataset, running, enqueued>>
       ELSE
       /\ pagesVisited' = pagesVisited + 1
       /\ IF pagesVisited + 1 > MAX_PAGES
          THEN /\ enqOk
               /\ requestQueue' = Rest(r)
               /\ UNCHANGED <<saved, seenJobUrls, seenPageUrls, failedUrls,
                              savedJobUrls, dataset, running, enqueued>>
          ELSE
          LET jobLinks == NewLinks(Links(PageOf(r.url)), seenJobUrls \cup failedUrls)
              toEnqueue == SubSeq(jobLinks, 1, Min(bufferSize, Len(jobLinks)))
              reqs == DetailReqs(toEnqueue, "none")
              rest == SkipRefused(jobLinks, saved, savedJobUrls)
          IN
          /\ seenJobUrls' = seenJobUrls \cup {JobUrl(j) : j \in Range(jobLinks)}
          /\ IF enqueueDetails(collectDetails, jobLinks)
             THEN IF enqOk
                  THEN /\ requestQueue' = AddRequests(Rest(r), enqueued, reqs)
                       /\ enqueued' = LogRequests(enqueued, reqs)
                       /\ running' = running \cup
                              {H(r, "listDelay", Null, NoRec, <<>>)}
                       /\ UNCHANGED <<saved, seenPageUrls, failedUrls,
                                      savedJobUrls, dataset>>
                  ELSE HandlerThrew(Rest(r), r, kind, running, seenPageUrls)
             ELSE
             /\ enqOk
             /\ requestQueue' = Rest(r)
             /\ UNCHANGED <<saved, seenPageUrls, failedUrls, savedJobUrls, enqueued>>
             /\ IF ~collectDetails /\ rest # <<>>
                THEN /\ dataset' = Push(dataset, listingRecord(Head(rest)))
                     /\ running' = running \cup
                            {H(r, "listSave", Null, listingRecord(Head(rest)), Tail(rest))}
                ELSE /\ running' = running \cup
                            {H(r, "listDelay", Null, NoRec, <<>>)}
                     /\ UNCHANGED dataset

\* saveJobRecord resumes after pushData inside the listing-save loop, and
\* the loop runs on to its next pushData or to the listing delay
listSaveDone(h) ==
    /\ variant = "part0"
    /\ h \in running /\ h.pc = "listSave"
    /\ savedJobUrls' = savedJobUrls \cup {h.rec.job_url}
    /\ saved' = saved + 1
    /\ LET rest == SkipRefused(h.rest, saved + 1, savedJobUrls \cup {h.rec.job_url})
       IN IF rest # <<>>
          THEN /\ dataset' = Push(dataset, listingRecord(Head(rest)))
               /\ running' = (running \ {h}) \cup
                      {H(h.req, "listSave", Null, listingRecord(Head(rest)), Tail(rest))}
          ELSE /\ running' = (running \ {h}) \cup
                      {H(h.req, "listDelay", Null, NoRec, <<>>)}
               /\ UNCHANGED dataset
    /\ UNCHANGED <<phase, OUTPUT, arg, result>>
    /\ UNCHANGED <<variant, collectDetails, pagesVisited, seenJobUrls,
                   seenPageUrls, failedUrls, requestQueue, enqueued>>

\* the listing handler resumes after randomDelay: pagination; enqOk =
\* FALSE: the awaited enqueueLinks of the next page rejects and the handler
\* throws
listDelayDone(h, enqOk, kind) ==
    /\ variant = "part0"
    /\ h \in running /\ h.pc = "listDelay"
    /\ LET nextPage == ListUrl(PageOf(h.req.url) + 1)
           reqs == <<Req(nextPage, "default", NoSeed, 0, 0, "none")>>
       IN IF pagesVisited < MAX_PAGES /\ ~isSeenPage(nextPage, seenPageUrls)
          THEN IF enqOk
               THEN /\ seenPageUrls' = seenPageUrls \cup {nextPage}
                    /\ requestQueue' = AddRequests(requestQueue, enqueued, reqs)
                    /\ enqueued' = LogRequests(enqueued, reqs)
                    /\ running' = running \ {h}
                    /\ UNCHANGED <<saved, savedJobUrls, failedUrls, dataset>>
               ELSE HandlerThrew(requestQueue, h.req, kind, running \ {h},
                                 seenPageUrls \cup {nextPage})
          ELSE /\ enqOk
               /\ running' = running \ {h}
               /\ UNCHANGED <<seenPageUrls, requestQueue, enqueued, saved,
                              savedJobUrls, failedUrls, dataset>>
    /\ UNCHANGED <<phase, OUTPUT, arg, result>>
    /\ UNCHANGED <<variant, collectDetails, pagesVisited, seenJobUrls>>

(* ------------------------- detail extraction --------------------------- *)

\* extractJsonLd: the first JobPosting of the page ("ld" pages carry one)
extractJsonLd(body) ==
    IF body.markup = "ld"
    THEN [title |-> "T-ld", company |-> "C-ld", job_type |-> "FULL_TIME",
          description_html |-> "<p> D </p>"]
    ELSE [title |-> Null, company |-> Null, job_type |-> Null,
          description_html |-> Null]

\* pickText over the DOM selectors of each field: an "ld" page has the job
\* markup, a block page has only a heading, a "bare" page nothing
pickText(body, fld) ==
    CASE body.markup = "ld" ->
           (CASE fld = "title" -> "T-dom" [] fld = "company" -> "C-dom"
              [] fld = "job_category" -> "Cat" [] OTHER -> Null)
      [] body.markup = "block" -> (IF fld = "title" THEN "T-block" ELSE Null)
      [] OTHER -> Null

\* cheerioLoad(html).text().replace(/\s+/g, ' ').trim()
htmlToText(html) == IF html = "<p> D </p>" THEN "D" ELSE ""

\* length of the prefix of the body the keyword test scans
ScanLen == 1000

\* bodies shorter than this count as blocked
MinBodyLen == 500

\* a blocked test that looks at the body length only
isBlockedByLength(body) == body.len < MinBodyLen

\* the blocked/error test on the raw body
isBlockedOrError(body) ==
    \/ body.len = 0
    \/ body.len < MinBodyLen
    \/ (body.kw > 0 /\ body.kw <= ScanLen)

\* a chain that asks the seed before the structured data
fieldValueSeedFirst(ld, seed, dom) == Or(seed, Or(ld, Or(dom, Null)))

\* jsonLd?.f || seed.f || pickText($, [...]) || null
fieldValue(ld, seed, dom) == Or(ld, Or(seed, Or(dom, Null)))

\* the record of the detail branch (JSON-LD, then seed, then DOM)
detailRecord(body, seed, url) ==
    LET jsonLd == extractJsonLd(body)
        html == Or(jsonLd.description_html, "")
    IN [title |-> fieldValue(jsonLd.title, seed.title, pickText(body, "title")),
        company |-> fieldValue(jsonLd.company, seed.company,
                               pickText(body, "company")),
        job_type |-> Or(jsonLd.job_type, pickText(body, "job_type")),
        job_category |-> pickText(body, "job_category"),
        description_html |-> html,
        description_text |-> IF Truthy(html) THEN htmlToText(html) ELSE "",
        job_url |-> url]

\* a detail page is handed to requestHandler (runs up to randomDelay)
detailPage(r, body) ==
    /\ variant = "part0"
    /\ CanDispatch(r) /\ isDetailUrl(r.url)
    /\ requestQueue' = Rest(r)
    /\ running' = IF saved >= RESULTS_WANTED THEN running
                  ELSE running \cup {HD(r, "detailDelay", body, NoRec)}
    /\ UNCHANGED <<phase, OUTPUT, arg, result>>
    /\ UNCHANGED <<variant, collectDetails, saved, pagesVisited, seenJobUrls,
                   seenPageUrls, failedUrls, savedJobUrls, dataset, enqueued>>

\* the detail handler resumes after randomDelay: blocked check, extraction,
\* validation and saveJobRecord up to pushData
detailDelayDone(h) ==
    /\ variant = "part0"
    /\ h \in running /\ h.pc = "detailDelay"
    /\ LET seed == h.req.seed
           body == h.body
           job_url == LoadedUrl(h.req.url)
           fallback == isBlockedOrError(body) /\ Truthy(seed.title)
           record == IF fallback THEN fallbackRecord(seed, job_url)
                     ELSE detailRecord(body, seed, job_url)
       IN IF ~fallback /\ ~(Truthy(record.title) /\ record.job_url # NoUrl)
          THEN /\ failedUrls' = failedUrls \cup {h.req.url}
               /\ running' = running \ {h}
               /\ UNCHANGED dataset
          ELSE IF saveJobRecord(record)
          THEN /\ dataset' = Push(dataset, record)
               /\ running' = (running \ {h}) \cup
                     {HD(h.req, IF fallback THEN "saveFallback" ELSE "saveDetail",
                         body, record)}
               /\ UNCHANGED failedUrls
          ELSE /\ running' = running \ {h}
               /\ UNCHANGED <<dataset, failedUrls>>
    /\ UNCHANGED <<phase, OUTPUT, arg, result>>
    /\ UNCHANGED <<variant, collectDetails, saved, pagesVisited, seenJobUrls,
                   seenPageUrls, savedJobUrls, requestQueue, enqueued>>

\* saveJobRecord resumes after pushData in the detail branch
saveDone(h) ==
    /\ variant = "part0"
    /\ h \in running /\ h.pc \in {"saveFallback", "saveDetail"}
    /\ savedJobUrls' = savedJobUrls \cup {h.rec.job_url}
    /\ saved' = saved + 1
    /\ failedUrls' = IF h.pc = "saveFallback" THEN failedUrls \cup {h.req.url}
                     ELSE failedUrls
    /\ running' = running \ {h}
    /\ UNCHANGED <<phase, OUTPUT, arg, result>>
    /\ UNCHANGED <<variant, collectDetails, pagesVisited, seenJobUrls,
                   seenPageUrls, dataset, requestQueue, enqueued>>

(* ------------------------------ part_000 ------------------------------- *)

NextP0 ==
    \/ \E r \in Range(requestQueue), ok \in BOOLEAN, k \in Kinds : listPage(r, ok, k)
    \/ \E r \in Range(requestQueue), b \in DetailBodies : detailPage(r, b)
    \/ \E r \in Range(requestQueue), k \in Kinds : failedRequestHandler(r, k)
    \/ \E h \in running : listSaveDone(h)
    \/ \E h \in running, ok \in BOOLEAN, k \in Kinds : listDelayDone(h, ok, k)
    \/ \E h \in running : detailDelayDone(h)
    \/ \E h \in running : saveDone(h)
    \/ \E h \in running : failedSaveDone(h)

SpecP0 == InitP0 /\ [][NextP0]_vars

(* ------------------------------ main.js -------------------------------- *)

\* main.js: the start requests are added under their default uniqueKey and
\* put into seenPageUrls; the built start URL has no page parameter
InitMain ==
    /\ variant = "main"
    /\ collectDetails \in BOOLEAN
    /\ saved = 0 /\ pagesVisited = 0
    /\ seenJobUrls = {} /\ seenPageUrls = {ListUrl(0)} /\ failedUrls = {}
    /\ savedJobUrls = {}
    /\ dataset = EmptyBag
    /\ requestQueue = <<Req(ListUrl(0), "default", NoSeed, 0, 0, "list")>>
    /\ running = {}
    /\ enqueued = SetToBag({LogKey(ListUrl(0), "default")})
    /\ phase = "run" /\ OUTPUT = NoOutput
    /\ arg = NoArg /\ result = NoResult

isDetailPageM(r) == r.tag = "detail" \/ isDetailUrl(LoadedUrl(r.url))

isListPageM(r) == r.tag = "list" \/ (isListUrl(LoadedUrl(r.url)) /\ ~isDetailPageM(r))

\* failedRequestHandler of main.js: only a non-listing URL is marked failed
failedStartM(r) ==
    /\ failedUrls' = IF r.tag = "list" \/ isListUrl(r.url) THEN failedUrls
                     ELSE failedUrls \cup {r.url}
    /\ requestQueue' = Rest(r)

failedRequestHandlerM(r) ==
    /\ variant = "main" /\ phase = "run"
    /\ CanDispatch(r)
    /\ failedStartM(r)
    /\ UNCHANGED <<phase, OUTPUT, arg, result>>
    /\ UNCHANGED <<variant, collectDetails, saved, pagesVisited, seenJobUrls,
                   seenPageUrls, savedJobUrls, dataset, running, enqueued>>

\* the crawler's answer to a handler of main.js that threw after its delay
HandlerThrewM(r) ==
    IF r.retryCount < maxRequestRetries
    THEN /\ requestQueue' = Append(requestQueue, [r EXCEPT !.retryCount = @ + 1])
         /\ UNCHANGED failedUrls
    ELSE /\ failedUrls' = IF r.tag = "list" \/ isListUrl(r.url) THEN failedUrls
                          ELSE failedUrls \cup {r.url}
         /\ UNCHANGED requestQueue

\* the anchors a listing page can carry as its "Next" link: none, or a link
\* to any page (also a lower one, one past the budget, one without a page
\* parameter)
NextHrefs == {NoUrl} \cup {ListUrl(k) : k \in 0..(MAX_PAGES + 1)}

\* the page number main.js derives from the next-page URL
nextPageNumM(url) == IF url.n = 0 THEN 2 ELSE url.n

\* methods 1 to 3 of the pagination block (a numbered link to page
\* currentPage + 1 is the URL method 3 builds)
nextPageUrlM(url, nextHref) ==
    IF nextHref # NoUrl THEN nextHref ELSE ListUrl(PageOf(url) + 1)

\* the pagination block of main.js: the request it enqueues, if any
paginationM(r, sv, nextHref) ==
    LET nextPageUrl == nextPageUrlM(r.url, nextHref)
    IN IF /\ sv < RESULTS_WANTED /\ pagesVisited < MAX_PAGES
          /\ nextPageNumM(nextPageUrl) > PageOf(r.url)
          /\ nextPageNumM(nextPageUrl) <= MAX_PAGES
          /\ ~isSeenPage(nextPageUrl, seenPageUrls)
       THEN <<Req(nextPageUrl, "default", NoSeed, 0, 0, "list")>>
       ELSE <<>>

\* the end of the pagination block: the URL is put into seenPageUrls and
\* enqueueLinks is awaited (enqOk = FALSE: it rejects and the handler throws)
paginateM(r, next, enqOk) ==
    /\ seenPageUrls' = seenPageUrls \cup {x.url : x \in Range(next)}
    /\ IF next = <<>>
       THEN enqOk /\ UNCHANGED <<requestQueue, enqueued, failedUrls>>
       ELSE IF enqOk
       THEN /\ requestQueue' = AddRequests(requestQueue, enqueued, next)
            /\ enqueued' = LogRequests(enqueued, next)
            /\ UNCHANGED failedUrls
       ELSE HandlerThrewM(r) /\ UNCHANGED enqueued

\* a listing page is handed to requestHandler (runs up to randomDelay)
listPageM(r) ==
    /\ variant = "main" /\ phase = "run"
    /\ CanDispatch(r) /\ isListPageM(r)
    /\ pagesVisited' = pagesVisited + 1
    /\ requestQueue' = Rest(r)
    /\ running' = IF saved >= RESULTS_WANTED \/ pagesVisited + 1 > MAX_PAGES
                  THEN running
                  ELSE running \cup {H(r, "listDelayM", Null, NoRec, <<>>)}
    /\ UNCHANGED <<phase, OUTPUT, arg, result>>
    /\ UNCHANGED <<variant, collectDetails, saved, seenJobUrls, seenPageUrls,
                   failedUrls, savedJobUrls, dataset, enqueued>>

\* the listing handler resumes after randomDelay: link extraction, then
\* enqueueLinks (enqOk = FALSE: it rejects and the handler throws) or
\* Dataset.pushData, or straight on to pagination when neither is awaited
listDelayDoneM(h, enqOk, nextHref) ==
    /\ variant = "main" /\ phase = "run"
    /\ h \in running /\ h.pc = "listDelayM"
    /\ LET r == h.req
           jobLinks == NewLinks(Links(PageOf(r.url)), seenJobUrls \cup failedUrls)
           cut == Slice0(jobLinks, RESULTS_WANTED - saved)
           reqs == DetailReqs(cut, "detail")
           next == paginationM(r, saved, nextHref)
       IN
       /\ seenJobUrls' = seenJobUrls \cup {JobUrl(j) : j \in Range(jobLinks)}
       /\ IF enqueueDetails(collectDetails, jobLinks) /\ Len(cut) > 0
          THEN IF enqOk
               THEN /\ requestQueue' = AddRequests(requestQueue, enqueued, reqs)
                    /\ enqueued' = LogRequests(enqueued, reqs)
                    /\ running' = (running \ {h}) \cup
                           {H(r, "listEnqM", Null, NoRec, <<>>)}
                    /\ UNCHANGED <<seenPageUrls, failedUrls, dataset>>
               ELSE /\ running' = running \ {h}
                    /\ HandlerThrewM(r)
                    /\ UNCHANGED <<seenPageUrls, dataset, enqueued>>
          ELSE IF ~collectDetails /\ Len(jobLinks) > 0
          THEN /\ enqOk /\ nextHref = NoUrl
               /\ dataset' = dataset (+) SetToBag({listingRecord(j) : j \in Range(cut)})
               /\ running' = (running \ {h}) \cup
                      {H(r, "listPushM", Null, NoRec, cut)}
               /\ UNCHANGED <<seenPageUrls, failedUrls, requestQueue, enqueued>>
          ELSE /\ running' = running \ {h}
               /\ paginateM(r, next, enqOk)
               /\ UNCHANGED dataset
    /\ UNCHANGED <<phase, OUTPUT, arg, result>>
    /\ UNCHANGED <<variant, collectDetails, saved, pagesVisited, savedJobUrls>>

\* the listing handler resumes after enqueueLinks or pushData: the counter
\* is raised by the pushed batch, then pagination
listAwaitDoneM(h, enqOk, nextHref) ==
    /\ variant = "main" /\ phase = "run"
    /\ h \in running /\ h.pc \in {"listEnqM", "listPushM"}
    /\ saved' = saved + Len(h.rest)
    /\ running' = running \ {h}
    /\ paginateM(h.req, paginationM(h.req, saved + Len(h.rest), nextHref), enqOk)
    /\ UNCHANGED <<phase, OUTPUT, arg, result>>
    /\ UNCHANGED <<variant, collectDetails, pagesVisited, seenJobUrls,
                   savedJobUrls, dataset>>

\* a detail page is handed to requestHandler (runs up to randomDelay)
detailPageM(r, body) ==
    /\ variant = "main" /\ phase = "run"
    /\ CanDispatch(r) /\ ~isListPageM(r) /\ isDetailPageM(r)
    /\ requestQueue' = Rest(r)
    /\ running' = IF saved >= RESULTS_WANTED THEN running
                  ELSE running \cup {HD(r, "detailDelayM", body, NoRec)}
    /\ UNCHANGED <<phase, OUTPUT, arg, result>>
    /\ UNCHANGED <<variant, collectDetails, saved, pagesVisited, seenJobUrls,
                   seenPageUrls, failedUrls, savedJobUrls, dataset, enqueued>>

\* the detail handler resumes after randomDelay: extraction, validation and
\* Dataset.pushData
detailDelayDoneM(h) ==
    /\ variant = "main" /\ phase = "run"
    /\ h \in running /\ h.pc = "detailDelayM"
    /\ LET record == detailRecord(h.body, h.req.seed, LoadedUrl(h.req.url))
       IN IF Truthy(record.title) /\ record.job_url # NoUrl
          THEN /\ dataset' = Push(dataset, record)
               /\ running' = (running \ {h}) \cup
                      {HD(h.req, "saveM", h.body, record)}
          ELSE /\ running' = running \ {h}
               /\ UNCHANGED dataset
    /\ UNCHANGED <<phase, OUTPUT, arg, result>>
    /\ UNCHANGED <<variant, collectDetails, saved, pagesVisited, seenJobUrls,
                   seenPageUrls, failedUrls, savedJobUrls, requestQueue, enqueued>>

\* the detail handler resumes after pushData: saved++
saveDoneM(h) ==
    /\ variant = "main" /\ phase = "run"
    /\ h \in running /\ h.pc = "saveM"
    /\ saved' = saved + 1
    /\ running' = running \ {h}
    /\ UNCHANGED <<phase, OUTPUT, arg, result>>
    /\ UNCHANGED <<variant, collectDetails, pagesVisited, seenJobUrls,
                   seenPageUrls, failedUrls, savedJobUrls, dataset,
                   requestQueue, enqueued>>

NextMain ==
    \/ \E r \in Range(requestQueue) : listPageM(r)
    \/ \E r \in Range(requestQueue), b \in DetailBodies : detailPageM(r, b)
    \/ \E r \in Range(requestQueue) : failedRequestHandlerM(r)
    \/ \E h \in running, ok \in BOOLEAN, n \in NextHrefs : listDelayDoneM(h, ok, n)
    \/ \E h \in running, ok \in BOOLEAN, n \in NextHrefs : listAwaitDoneM(h, ok, n)
    \/ \E h \in running : detailDelayDoneM(h)
    \/ \E h \in running : saveDoneM(h)

SpecMain == InitMain /\ [][NextMain]_vars

(* ------------------------ main.js: end of the run ---------------------- *)

\* crawler.run() has resolved: the final stats are written to OUTPUT and
\* the actor exits
runFinished ==
    /\ variant = "main" /\ phase = "run"
    /\ requestQueue = <<>> /\ running = {}
    /\ OUTPUT' = Out({"jobsSaved", "pagesVisited", "targetJobs", "maxPages",
                      "uniqueJobUrls", "uniquePageUrls", "failedUrls"},
                     "", "", saved, pagesVisited, Cardinality(seenJobUrls),
                     Cardinality(seenPageUrls), Cardinality(failedUrls))
    /\ phase' = "exit"
    /\ UNCHANGED <<variant, collectDetails, saved, pagesVisited, seenJobUrls,
                   seenPageUrls, failedUrls, savedJobUrls, dataset,
                   requestQueue, running, enqueued, arg, result>>

\* an exception reaches the catch block of main (crawler.run() rejects):
\* OUTPUT is written and the error thrown on
fatalError ==
    /\ variant = "main" /\ phase = "run"
    /\ OUTPUT' = Out({"error", "jobsSaved", "status"},
                     "FAILED", "message", 0, 0, 0, 0, 0)
    /\ phase' = "thrown"
    /\ UNCHANGED <<variant, collectDetails, saved, pagesVisited, seenJobUrls,
                   seenPageUrls, failedUrls, savedJobUrls, dataset,
                   requestQueue, running, enqueued, arg, result>>

\* main().catch: OUTPUT is written again, then Actor.exit()
unhandledError ==
    /\ variant = "main" /\ phase = "thrown"
    /\ OUTPUT' = Out({"error", "stack", "status"},
                     "FAILED", "message", 0, 0, 0, 0, 0)
    /\ phase' = "exit"
    /\ UNCHANGED <<variant, collectDetails, saved, pagesVisited, seenJobUrls,
                   seenPageUrls, failedUrls, savedJobUrls, dataset,
                   requestQueue, running, enqueued, arg, result>>

\* a run of main.js from its start to Actor.exit()
NextRun ==
    \/ NextMain
    \/ runFinished
    \/ fatalError
    \/ unhandledError

SpecRun == InitMain /\ [][NextRun]_vars

(* ----------------------------- either one ------------------------------ *)

Init == InitP0 \/ InitMain

Next == NextP0 \/ NextMain

Spec == Init /\ [][Next]_vars

\* the crawler keeps dispatching while the queue holds a request, every
\* fetch returns, and every await of a handler settles
FairSpec == Init /\ [][Next]_vars /\ WF_vars(Next)

(* ------------------- functions applied on their own -------------------- *)

\* the fields of a record that come from JSON-LD, seed or DOM
FieldNames == {"title", "company", "location", "salary", "date_posted"}

\* String.prototype.trim, on the texts the pages of the model carry
trim(t) == IF t = " " THEN "" ELSE IF t = " C " THEN "C" ELSE t

\* pickText over the texts of the nodes its selectors match, in the order
\* of the selectors: the first text that is not empty once trimmed
RECURSIVE pickTextOf(_)
pickTextOf(texts) ==
    IF texts = <<>> THEN Null
    ELSE IF Truthy(trim(Head(texts))) THEN trim(Head(texts))
    ELSE pickTextOf(Tail(texts))

\* jsonLd?.f : extractJsonLd returns null on a page without JobPosting
ldField(a, f) == IF a.posting THEN a.ld[f] ELSE Null

\* detail pages as the field extraction sees them: the JobPosting item (if
\* any) with each field present or null, the seed of the listing card, and
\* per field the texts of the nodes the DOM selectors match
FieldArgs ==
    {[op |-> "fields", posting |-> TRUE, ld |-> l, seed |-> s, dom |-> d] :
        l \in [FieldNames -> {Null, "A"}], s \in [FieldNames -> {Null, "B"}],
        d \in [FieldNames -> {<<>>, <<" ", "C">>}]}
    \cup
    {[op |-> "fields", posting |-> FALSE, ld |-> [f \in FieldNames |-> Null],
      seed |-> s, dom |-> d] :
        s \in [FieldNames -> {Null, "B"}],
        d \in [FieldNames -> {<<>>, <<" ", "C">>}]}

\* the five fields of the detail branch
extractFields ==
    /\ variant = "pure" /\ arg.op = "fields" /\ result = NoResult
    /\ result' = [op |-> "fields",
                  rec |-> [f \in FieldNames |->
                             fieldValue(ldField(arg, f), arg.seed[f],
                                        pickTextOf(arg.dom[f]))]]
    /\ UNCHANGED <<variant, collectDetails, saved, pagesVisited, seenJobUrls,
                   seenPageUrls, failedUrls, savedJobUrls, dataset,
                   requestQueue, running, enqueued, phase, OUTPUT, arg>>

\* longest path of a URL, in segments
MaxSegs == 3

\* path segments: the words the patterns look for, a slug, and a slug that
\* ends in -job<digits>
Segs == {"job", "jobs", "admin", "acme-job1"}

\* the path of a URL as the sequence of its segments (no trailing slash)
Paths == UNION {[1..n -> Segs] : n \in 1..MaxSegs}

\* [^/]+-job\d+ at the start of a segment
hasJobId(seg) == seg = "acme-job1"

\* /\/job\/[^/]+\/[^/]+-job\d+/.test(url)
matchesJobDetail(path) ==
    \E i \in 1..(Len(path) - 2) : path[i] = "job" /\ hasJobId(path[i + 2])

\* /\/jobs\//.test(url): a segment jobs with a slash after it
matchesJobs(path) == \E i \in 1..(Len(path) - 1) : path[i] = "jobs"

\* the branches requestHandler of part_000 runs on a URL
classifyP0(path) ==
    LET isDetailPage == matchesJobDetail(path)
        isListPage == matchesJobs(path) /\ ~isDetailPage
    IN (IF isListPage THEN {"list"} ELSE {})
       \cup (IF isDetailPage THEN {"detail"} ELSE {})

\* the branches requestHandler of main.js runs on a request: userData tags
\* come first, the listing branch and the detail branch are two ifs
classifyM(path, tag) ==
    LET isDetailPage == tag = "detail" \/ matchesJobDetail(path)
        isListPage == tag = "list" \/ (matchesJobs(path) /\ ~isDetailPage)
    IN (IF isListPage THEN {"list"} ELSE {})
       \cup (IF isDetailPage THEN {"detail"} ELSE {})

\* requests a handler can be given: part_000 tags nothing and takes any
\* start URL of the input; main.js tags the start URLs of the input and the
\* next pages as listings and the job links of a listing, which match the
\* pattern and start with /job/, as details
ClassifyArgs ==
    {[op |-> "classify", rev |-> "part0", path |-> p, tag |-> "none"] :
        p \in Paths}
    \cup {[op |-> "classify", rev |-> "main", path |-> p, tag |-> "list"] :
        p \in Paths}
    \cup {[op |-> "classify", rev |-> "main", path |-> p, tag |-> "detail"] :
        p \in {q \in Paths : q[1] = "job" /\ matchesJobDetail(q)}}

\* requestHandler classifies the request and runs its branches
classify ==
    /\ variant = "pure" /\ arg.op = "classify" /\ result = NoResult
    /\ result' = [op |-> "classify",
                  branches |-> IF arg.rev = "part0" THEN classifyP0(arg.path)
                               ELSE classifyM(arg.path, arg.tag)]
    /\ UNCHANGED <<variant, collectDetails, saved, pagesVisited, seenJobUrls,
                   seenPageUrls, failedUrls, savedJobUrls, dataset,
                   requestQueue, running, enqueued, phase, OUTPUT, arg>>

\* the default of blockDelayRange, in milliseconds
blockDelay == <<5000, 9000>>

\* status codes and message fragments of the errors of the model: one
\* fragment for each pattern failedRequestHandler tests the message with
StatusCodes == {0, 403, 429, 500}

Fragments == {"blocked", "timeout", "ECONNRESET", "NGHTTP2", "ENOTFOUND"}

FailureArgs ==
    {[op |-> "failure", statusCode |-> c, message |-> m] :
        c \in StatusCodes, m \in SUBSET Fragments}

is403or429(e) == e.statusCode \in {403, 429} \/ "blocked" \in e.message

isTimeout(e) == "timeout" \in e.message

isSocketError(e) == "ECONNRESET" \in e.message

isHttp2Error(e) == "NGHTTP2" \in e.message

isNetworkError(e) ==
    isHttp2Error(e) \/ isSocketError(e) \/ "ENOTFOUND" \in e.message

\* a dispatch that tests the socket error before the blocked status
sessionActionSocketFirst(e) ==
    IF isSocketError(e) THEN [session |-> "markBad", delay |-> <<1500, 2500>>]
    ELSE IF is403or429(e) THEN [session |-> "retire", delay |-> blockDelay]
    ELSE [session |-> "none", delay |-> <<0, 0>>]

\* the if / else-if chain at the end of failedRequestHandler: what is done
\* to the session and the range of the delay that follows
sessionAction(e) ==
    IF is403or429(e) THEN [session |-> "retire", delay |-> blockDelay]
    ELSE IF isSocketError(e)
    THEN [session |-> "markBad", delay |-> <<1500, 2500>>]
    ELSE IF isTimeout(e) THEN [session |-> "markBad", delay |-> <<1200, 2000>>]
    ELSE IF isHttp2Error(e) THEN [session |-> "retire", delay |-> <<300, 800>>]
    ELSE IF isNetworkError(e)
    THEN [session |-> "markBad", delay |-> <<800, 1600>>]
    ELSE [session |-> "none", delay |-> <<0, 0>>]

\* failedRequestHandler classifies the error and acts on the session
handleFailure ==
    /\ variant = "pure" /\ arg.op = "failure" /\ result = NoResult
    /\ result' = [op |-> "failure", act |-> sessionAction(arg)]
    /\ UNCHANGED <<variant, collectDetails, saved, pagesVisited, seenJobUrls,
                   seenPageUrls, failedUrls, savedJobUrls, dataset,
                   requestQueue, running, enqueued, phase, OUTPUT, arg>>

\* the anchors of a listing page that matter to pagination: whether the
\* text contains "Next", and the href (NoUrl: no href attribute; a listing
\* URL without or with a page parameter)
MaxAnchors == 2

Anchors == [next : BOOLEAN, href : NextHrefs]

AnchorSeqs == UNION {[1..n -> Anchors] : n \in 0..MaxAnchors}

NextPageArgs ==
    [op : {"nextPage"}, url : {ListUrl(p) : p \in 0..MAX_PAGES},
     anchors : AnchorSeqs]

\* $('a:contains("Next")').first().attr('href'), NoUrl if there is none
RECURSIVE nextButtonHref(_)
nextButtonHref(anchors) ==
    IF anchors = <<>> THEN NoUrl
    ELSE IF Head(anchors).next THEN Head(anchors).href
    ELSE nextButtonHref(Tail(anchors))

\* method 2: the first anchor whose href has page=currentPage + 1
RECURSIVE pageLinkHref(_, _)
pageLinkHref(anchors, currentPage) ==
    IF anchors = <<>> THEN NoUrl
    ELSE IF /\ Head(anchors).href # NoUrl /\ Head(anchors).href.n # 0
            /\ Head(anchors).href.n = currentPage + 1
    THEN Head(anchors).href
    ELSE pageLinkHref(Tail(anchors), currentPage)

\* a resolver that looks at the numbered links before the Next button
nextHrefNumberedFirst(url, anchors) ==
    IF pageLinkHref(anchors, PageOf(url)) # NoUrl
    THEN pageLinkHref(anchors, PageOf(url))
    ELSE nextButtonHref(anchors)

\* methods 1 and 2 of the pagination block: the href found on the page
nextHrefOf(url, anchors) ==
    IF nextButtonHref(anchors) # NoUrl THEN nextButtonHref(anchors)
    ELSE pageLinkHref(anchors, PageOf(url))

\* the pagination block of main.js resolves the next page URL
resolveNextPage ==
    /\ variant = "pure" /\ arg.op = "nextPage" /\ result = NoResult
    /\ result' = [op |-> "nextPage",
                  url |-> nextPageUrlM(arg.url, nextHrefOf(arg.url, arg.anchors))]
    /\ UNCHANGED <<variant, collectDetails, saved, pagesVisited, seenJobUrls,
                   seenPageUrls, failedUrls, savedJobUrls, dataset,
                   requestQueue, running, enqueued, phase, OUTPUT, arg>>

\* the pagination inputs: the page after and the page before the current
\* one are seen or not
EnqueueNextArgs ==
    [op : {"enqueueNext"}, rev : {"main", "part4"},
     url : {ListUrl(p) : p \in 0..MAX_PAGES}, anchors : AnchorSeqs,
     seenNext : BOOLEAN, seenPrev : BOOLEAN]

\* the seen set of a pagination input: main.js has the URL it handles in
\* seenPageUrls (a start URL or an enqueued next page), part_004 never puts
\* its start URL into seenUrls
seenOf(a) ==
    (IF a.rev = "main" THEN {a.url} ELSE {})
    \cup (IF a.seenNext THEN {ListUrl(PageOf(a.url) + 1)} ELSE {})
    \cup (IF a.seenPrev THEN {ListUrl(Max(PageOf(a.url) - 1, 1))} ELSE {})

\* part_004: the hrefs of the anchors with ?page=<digits> in document order,
\* then the href of the Next button
nextPageLinks(anchors) ==
    LET hasPage(a) == a.href # NoUrl /\ a.href.n # 0
        pageLinks == SelectSeq(anchors, hasPage)
        nextLink == nextButtonHref(anchors)
    IN [i \in 1..Len(pageLinks) |-> pageLinks[i].href]
       \o (IF nextLink # NoUrl THEN <<nextLink>> ELSE <<>>)

\* part_004: the next page the pagination block enqueues (NoUrl: none),
\* the first link found, if it is not in seenUrls
nextPageP4(anchors, seen) ==
    IF nextPageLinks(anchors) = <<>> THEN NoUrl
    ELSE IF isSeenPage(nextPageLinks(anchors)[1], seen) THEN NoUrl
    ELSE nextPageLinks(anchors)[1]

\* main.js: the next page the pagination block enqueues (NoUrl: none),
\* the resolved URL if its page number passes the validation and it is not
\* in seenPageUrls
nextPageMain(url, anchors, seen) ==
    LET nextPageUrl == nextPageUrlM(url, nextHrefOf(url, anchors))
    IN IF /\ nextPageNumM(nextPageUrl) > PageOf(url)
          /\ nextPageNumM(nextPageUrl) <= MAX_PAGES
          /\ ~isSeenPage(nextPageUrl, seen)
       THEN nextPageUrl
       ELSE NoUrl

\* the pagination block of a listing page decides what it enqueues
enqueueNextPage ==
    /\ variant = "pure" /\ arg.op = "enqueueNext" /\ result = NoResult
    /\ result' = [op |-> "enqueueNext",
                  next |-> IF arg.rev = "main"
                           THEN nextPageMain(arg.url, arg.anchors, seenOf(arg))
                           ELSE nextPageP4(arg.anchors, seenOf(arg))]
    /\ UNCHANGED <<variant, collectDetails, saved, pagesVisited, seenJobUrls,
                   seenPageUrls, failedUrls, savedJobUrls, dataset,
                   requestQueue, running, enqueued, phase, OUTPUT, arg>>

\* JSON-LD: blocks per page and items per block
MaxBlocks == 2

MaxItems == 2

\* the items of a parsed block: null, an object of another type, a
\* JobPosting with a string @type (title "A") or with an array @type that
\* includes JobPosting (title "B")
LdItems ==
    {[type |-> "null", title |-> Null], [type |-> "Other", title |-> "A"],
     [type |-> "JobPosting", title |-> "A"],
     [type |-> "[JobPosting]", title |-> "B"]}

\* a script block: without content, with content JSON.parse rejects, or
\* parsed into its list of items (a single object is the list of one item)
LdBlocks ==
    {[kind |-> "empty", items |-> <<>>], [kind |-> "malformed", items |-> <<>>]}
    \cup [kind : {"parsed"},
          items : UNION {[1..n -> LdItems] : n \in 0..MaxItems}]

JsonLdArgs ==
    [op : {"jsonLd"}, scripts : UNION {[1..n -> LdBlocks] : n \in 0..MaxBlocks}]

\* what extractJsonLd returns: null, or the object built from an item
NoPosting == [found |-> FALSE, title |-> Null]

\* type === 'JobPosting' || (Array.isArray(type) && type.includes('JobPosting'))
isJobPosting(item) == item.type \in {"JobPosting", "[JobPosting]"}

\* the loop over the items of one block
RECURSIVE firstPosting(_)
firstPosting(items) ==
    IF items = <<>> THEN NoPosting
    ELSE IF Head(items).type = "null" THEN firstPosting(Tail(items))
    ELSE IF isJobPosting(Head(items))
    THEN [found |-> TRUE, title |-> Head(items).title]
    ELSE firstPosting(Tail(items))

\* a scan that ends at the first block JSON.parse rejects
RECURSIVE extractJsonLdStopAtError(_)
extractJsonLdStopAtError(scripts) ==
    IF scripts = <<>> THEN NoPosting
    ELSE IF Head(scripts).kind = "malformed" THEN NoPosting
    ELSE IF firstPosting(Head(scripts).items).found
    THEN firstPosting(Head(scripts).items)
    ELSE extractJsonLdStopAtError(Tail(scripts))

\* extractJsonLd: the loop over the script blocks, each in its own try
RECURSIVE extractJsonLdOf(_)
extractJsonLdOf(scripts) ==
    IF scripts = <<>> THEN NoPosting
    ELSE IF Head(scripts).kind \in {"empty", "malformed"}
    THEN extractJsonLdOf(Tail(scripts))
    ELSE IF firstPosting(Head(scripts).items).found
    THEN firstPosting(Head(scripts).items)
    ELSE extractJsonLdOf(Tail(scripts))

\* the detail branch looks the structured data up
lookupJsonLd ==
    /\ variant = "pure" /\ arg.op = "jsonLd" /\ result = NoResult
    /\ result' = [op |-> "jsonLd", jsonLd |-> extractJsonLdOf(arg.scripts)]
    /\ UNCHANGED <<variant, collectDetails, saved, pagesVisited, seenJobUrls,
                   seenPageUrls, failedUrls, savedJobUrls, dataset,
                   requestQueue, running, enqueued, phase, OUTPUT, arg>>

\* selectors per pickText call
MaxSelectors == 3

\* what evaluating one selector gives: no node, an exception, or the text
\* of the matched nodes
Selectors ==
    {[kind |-> "none", text |-> ""], [kind |-> "throws", text |-> ""]}
    \cup [kind : {"text"}, text : {"", " ", " C ", "D"}]

PickTextArgs ==
    [op : {"pickText"},
     selectors : UNION {[1..n -> Selectors] : n \in 0..MaxSelectors}]

\* a loop that an exception ends; done: the selectors evaluated before
RECURSIVE pickTextAbort(_, _)
pickTextAbort(selectors, done) ==
    IF selectors = <<>> THEN [text |-> Null, evaluated |-> done]
    ELSE IF Head(selectors).kind = "throws"
    THEN [text |-> Null, evaluated |-> done + 1]
    ELSE IF Head(selectors).kind = "text" /\ trim(Head(selectors).text) # ""
    THEN [text |-> trim(Head(selectors).text), evaluated |-> done + 1]
    ELSE pickTextAbort(Tail(selectors), done + 1)

\* pickText over the outcomes of its selectors: the text returned and the
\* number of selectors evaluated; done: the selectors evaluated before
RECURSIVE pickTextFrom(_, _)
pickTextFrom(selectors, done) ==
    IF selectors = <<>> THEN [text |-> Null, evaluated |-> done]
    ELSE IF Head(selectors).kind = "text" /\ trim(Head(selectors).text) # ""
    THEN [text |-> trim(Head(selectors).text), evaluated |-> done + 1]
    ELSE pickTextFrom(Tail(selectors), done + 1)

\* pickText is called with a list of selectors
callPickText ==
    /\ variant = "pure" /\ arg.op = "pickText" /\ result = NoResult
    /\ result' = [op |-> "pickText", picked |-> pickTextFrom(arg.selectors, 0)]
    /\ UNCHANGED <<variant, collectDetails, saved, pagesVisited, seenJobUrls,
                   seenPageUrls, failedUrls, savedJobUrls, dataset,
                   requestQueue, running, enqueued, phase, OUTPUT, arg>>

\* what the caller passes as maxConcurrency or minConcurrency: a value that
\* Number.isFinite(+v) rejects (absent, not a number, Infinity), or a number
\* in tenths (negative, zero, fractions, the limits, very large)
ConcurrencyInputs ==
    {[finite |-> FALSE, tenths |-> 0]}
    \cup [finite : {TRUE},
          tenths : {-10, 0, 5, 10, 15, 20, 25, 50, 115, 120, 125, 10000}]

ConcurrencyArgs ==
    [op : {"concurrency"}, rev : {"part0", "main"},
     inputMaxConcurrency : ConcurrencyInputs,
     inputMinConcurrency : ConcurrencyInputs]

\* Math.floor of a number of tenths, in tenths
floorTenths(t) == (t \div 10) * 10

\* a minimum taken from the input without the clamp to maxConcurrency
effectiveMinUnclamped(rev, x, maxC) ==
    IF rev = "part0" /\ x.finite THEN Max(20, x.tenths)
    ELSE Max(10, floorTenths(maxC \div 2))

\* the maxConcurrency given to the crawler, in tenths
effectiveMaxConcurrency(rev, x) ==
    IF rev = "part0"
    THEN IF x.finite THEN Max(20, Min(120, x.tenths)) ELSE 50
    ELSE IF x.finite THEN Max(10, Min(120, x.tenths)) ELSE 60

\* the minConcurrency given to the crawler, in tenths; main.js does not
\* read the input and takes half of maxConcurrency
effectiveMinConcurrency(rev, x, maxC) ==
    IF rev = "part0"
    THEN IF x.finite THEN Max(20, Min(maxC, x.tenths))
         ELSE Min(maxC, Max(20, floorTenths((maxC * 6) \div 10)))
    ELSE Max(10, floorTenths(maxC \div 2))

\* main computes the concurrency window of the crawler
configureConcurrency ==
    /\ variant = "pure" /\ arg.op = "concurrency" /\ result = NoResult
    /\ LET maxC == effectiveMaxConcurrency(arg.rev, arg.inputMaxConcurrency)
       IN result' = [op |-> "concurrency", maxConcurrency |-> maxC,
                     minConcurrency |->
                         effectiveMinConcurrency(arg.rev,
                                                 arg.inputMinConcurrency, maxC)]
    /\ UNCHANGED <<variant, collectDetails, saved, pagesVisited, seenJobUrls,
                   seenPageUrls, failedUrls, savedJobUrls, dataset,
                   requestQueue, running, enqueued, phase, OUTPUT, arg>>

\* the default of navigationDelayRange, in milliseconds
navDelay == <<150, 350>>

\* the values Math.random() takes in the model: 0, one half, and the
\* largest value below 1
Draws == {"lo", "mid", "hi"}

\* Math.floor(Math.random() * n) for n >= 1
floorRandom(u, n) == IF u = "lo" THEN 0 ELSE IF u = "mid" THEN n \div 2 ELSE n - 1

\* randomDelay(min, max): the milliseconds it waits
randomDelay(min, max, u) == floorRandom(u, max - min + 1) + min

\* getBackoffDelay(retryCount); the jitter Math.random() * 1000 is taken
\* as a whole number of milliseconds
getBackoffDelay(retryCount, u) ==
    Min(1000 * (2 ^ retryCount) + floorRandom(u, 1000), 10000)

HookArgs ==
    [op : {"hook"}, rev : {"part0", "main"}, retryCount : 0..maxRequestRetries,
     u1 : Draws, u2 : Draws]

\* the milliseconds the pre-navigation hook waits before a fetch: main.js
\* takes the backoff of a retry as the lower end of its random delay,
\* part_000 waits within navDelay whatever the retryCount
hookDelay(rev, retryCount, u1, u2) ==
    IF rev = "main"
    THEN LET delayBase == IF retryCount > 0 THEN getBackoffDelay(retryCount, u1)
                          ELSE floorRandom(u1, 500) + 600
         IN randomDelay(delayBase, delayBase + 800, u2)
    ELSE randomDelay(navDelay[1], navDelay[2], u2)

\* the pre-navigation hook runs before a fetch
preNavigationHook ==
    /\ variant = "pure" /\ arg.op = "hook" /\ result = NoResult
    /\ result' = [op |-> "hook",
                  waited |-> hookDelay(arg.rev, arg.retryCount, arg.u1, arg.u2)]
    /\ UNCHANGED <<variant, collectDetails, saved, pagesVisited, seenJobUrls,
                   seenPageUrls, failedUrls, savedJobUrls, dataset,
                   requestQueue, running, enqueued, phase, OUTPUT, arg>>

InitPure ==
    /\ variant = "pure"
    /\ collectDetails = TRUE
    /\ saved = 0 /\ pagesVisited = 0
    /\ seenJobUrls = {} /\ seenPageUrls = {} /\ failedUrls = {}
    /\ savedJobUrls = {}
    /\ dataset = EmptyBag
    /\ requestQueue = <<>>
    /\ running = {}
    /\ enqueued = EmptyBag
    /\ phase = "run" /\ OUTPUT = NoOutput
    /\ \/ arg \in FieldArgs \cup ClassifyArgs \cup FailureArgs
       \/ arg \in NextPageArgs
       \/ arg \in EnqueueNextArgs
       \/ arg \in JsonLdArgs
       \/ arg \in PickTextArgs
       \/ arg \in ConcurrencyArgs
       \/ arg \in HookArgs
    /\ result = NoResult

NextPure ==
    \/ extractFields
    \/ classify
    \/ handleFailure
    \/ resolveNextPage
    \/ enqueueNextPage
    \/ lookupJsonLd
    \/ callPickText
    \/ configureConcurrency
    \/ preNavigationHook

SpecPure == InitPure /\ [][NextPure]_vars

(* ------------------------------- claims -------------------------------- *)

\* C1: quota invariant under concurrency: in every reachable state the saved
\* counter and the number of records pushed to the dataset are at most
\* RESULTS_WANTED, whatever handlers are suspended between the quota check
\* and saved++
QuotaInvariant ==
    /\ saved <= RESULTS_WANTED
    /\ BagCardinality(dataset) <= RESULTS_WANTED

\* C2: dedup invariant: in every reachable state no two records of the
\* dataset have the same job_url, whichever save path pushed them
DedupInvariant ==
    \A x \in BagToSet(dataset) :
        /\ CopiesIn(x, dataset) = 1
        /\ \A y \in BagToSet(dataset) : y.job_url = x.job_url => y = x

\* C3: record validity: every record of the dataset has a non-empty title
\* and a non-empty job_url, on every save path
RecordValidity ==
    \A x \in BagToSet(dataset) : Truthy(x.title) /\ x.job_url # NoUrl

\* C4: pagination termination: no listing request for a page past MAX_PAGES
\* is ever in the queue or in a handler, whichever fetches fail and whatever
\* next links the pages carry
PaginationBound ==
    \A r \in Range(requestQueue) \cup {h.req : h \in running} :
        isListUrl(r.url) => PageOf(r.url) <= MAX_PAGES

\* C5: page budget: pagesVisited <= MAX_PAGES in every reachable state
PageBudget == pagesVisited <= MAX_PAGES

\* the requests a step adds to the queue, the crawler's own re-dispatch of a
\* request whose handler threw left aside
Added == {r \in Range(requestQueue') \ Range(requestQueue) : r.retryCount = 0}

\* C6: cancellation on quota: once saved >= RESULTS_WANTED no step adds a
\* target to the request queue (no detail target, no next page, no requeue,
\* no fallback)
CancellationOnQuota == [][saved >= RESULTS_WANTED => Added = {}]_vars

\* the crawl is over: nothing is queued and no handler is running
Done == requestQueue = <<>> /\ running = {}

\* C7: termination: under fair scheduling every run reaches an empty queue
\* with no handler running
Termination == <>Done

\* a run that saved a record and gave up on a URL has ended
TerminationWitness == Done /\ saved > 0 /\ failedUrls # {}

\* C8: detail dedup: each detail URL is handed to the queue at most once in
\* a run, and only after it was put into the seen set
DetailDedup ==
    \A j \in Jobs :
        /\ CopiesIn(LogKey(JobUrl(j), "default"), enqueued) <= 1
        /\ BagIn(LogKey(JobUrl(j), "default"), enqueued) => JobUrl(j) \in seenJobUrls

\* two listing pages that both carry job 2 were extracted and their links
\* enqueued
DetailDedupWitness ==
    /\ pagesVisited >= 2
    /\ CopiesIn(LogKey(JobUrl(2), "default"), enqueued) = 1
    /\ CopiesIn(LogKey(JobUrl(3), "default"), enqueued) = 1

\* C9, as stated: no step enqueues a listing URL that is already in
\* seenPageUrls
ListingNeverReenqueued ==
    [][\A r \in Added : isListUrl(r.url) => r.url \notin seenPageUrls]_vars

\* C9, amended: pagination and the next-page fallback enqueue a listing URL
\* only when it is not in seenPageUrls, and put it there; a listing URL is
\* enqueued again only by the failure requeue, under a retry key with
\* requeueAttempt 1..MaxRequeue
ListingEnqueueGuard ==
    [][\A r \in Added : isListUrl(r.url) =>
          \/ r.url \notin seenPageUrls /\ r.url \in seenPageUrls'
          \/ r.key = "retry" /\ r.requeueAttempt \in 1..MaxRequeue]_vars

\* a listing URL that pagination put into seenPageUrls is queued again
\* under a retry key
ListingEnqueueGuardWitness ==
    \E r \in Range(requestQueue) :
        isListUrl(r.url) /\ r.key = "retry" /\ r.url \in seenPageUrls

\* C10: blocked-page recovery: a detail handler that resumes on a blocked
\* body (shorter than 500 characters, or a blocking keyword in the first
\* 1000) with a seed title, quota unmet and the job_url unsaved pushes
\* exactly one record, built from the seed with job_type, job_category,
\* description_html and description_text null; when the save completes the
\* counter is raised by one and the request URL is in failedUrls
BlockedRecovery ==
    [][/\ \A h \in running :
            (/\ h.pc = "detailDelay" /\ h \notin running'
             /\ (h.body.len < 500 \/ (h.body.kw > 0 /\ h.body.kw <= 1000))
             /\ Truthy(h.req.seed.title)
             /\ saved < RESULTS_WANTED
             /\ LoadedUrl(h.req.url) \notin savedJobUrls)
            => LET rec == [title |-> h.req.seed.title,
                           company |-> h.req.seed.company,
                           job_type |-> Null, job_category |-> Null,
                           description_html |-> Null, description_text |-> Null,
                           job_url |-> LoadedUrl(h.req.url)]
               IN /\ dataset' = dataset (+) SetToBag({rec})
                  /\ \E g \in running' \ running :
                        g.req = h.req /\ g.pc = "saveFallback" /\ g.rec = rec
       /\ \A h \in running :
            (h.pc = "saveFallback" /\ h \notin running')
            => /\ saved' = saved + 1
               /\ dataset' = dataset
               /\ h.req.url \in failedUrls'
               /\ h.rec.job_url \in savedJobUrls']_vars

\* the handler of a captcha page has pushed the seed record and waits for
\* pushData, quota unmet
BlockedRecoveryWitness ==
    \E h \in running :
        /\ h.pc = "saveFallback" /\ h.body.len < 500
        /\ h.rec.title = "T-seed" /\ h.rec.description_html = Null
        /\ BagIn(h.rec, dataset)
        /\ saved < RESULTS_WANTED

\* C11: a detail handler that resumes on a blocked body (shorter than 500
\* characters, or a blocking keyword in the first 1000), with or without a
\* seed title and whether or not the save is accepted, runs no normal
\* extraction: it pushes nothing but the seed record, and the request URL is
\* in failedUrls when the handler ends
BlockedNeverExtracted ==
    [][/\ \A h \in running :
            (/\ h.pc = "detailDelay" /\ h \notin running'
             /\ (h.body.len < 500 \/ (h.body.kw > 0 /\ h.body.kw <= 1000)))
            => /\ \A g \in running' \ running :
                    g.req = h.req => /\ g.pc = "saveFallback"
                                     /\ g.rec.description_html = Null
               /\ (\A g \in running' \ running : g.req # h.req)
                    => /\ dataset' = dataset
                       /\ h.req.url \in failedUrls'
       /\ \A h \in running :
            (/\ h.pc \in {"saveFallback", "saveDetail"} /\ h \notin running'
             /\ (h.body.len < 500 \/ (h.body.kw > 0 /\ h.body.kw <= 1000)))
            => h.req.url \in failedUrls']_vars

ClassifierByUrl ==
    (arg.op = "classify" /\ result.op = "classify") =>
        LET p == arg.path
            detail == \E i \in 1..(Len(p) - 2) :
                         p[i] = "job" /\ p[i + 2] = "acme-job1"
            jobs == \E i \in 1..(Len(p) - 1) : p[i] = "jobs"
        IN result.branches = IF detail THEN {"detail"}
                             ELSE IF jobs THEN {"list"} ELSE {}

\* C14: when collectDetails is false no detail URL is ever handed to the
\* queue, waiting in it or being handled, and every record of the dataset
\* is a listing seed with the detail-only fields null
NoDetailFetches ==
    ~collectDetails =>
        /\ \A i \in 1..Len(requestQueue) : requestQueue[i].url.t # "J"
        /\ \A h \in running : h.req.url.t # "J"
        /\ \A k \in BagToSet(enqueued) : k.url.t # "J"
        /\ \A rec \in BagToSet(dataset) :
              /\ rec.job_type = Null /\ rec.job_category = Null
              /\ rec.description_html = Null /\ rec.description_text = Null

\* collectDetails is false, a seed record has been saved from a listing and
\* the next listing page waits in the queue
NoDetailFetchesWitness ==
    /\ ~collectDetails /\ saved > 0
    /\ \E rec \in BagToSet(dataset) : rec.title = "T-seed"
    /\ \E i \in 1..Len(requestQueue) :
          requestQueue[i].url.t = "L" /\ requestQueue[i].url.n = 2

\* C15: every run that has exited left a summary in OUTPUT that carries the
\* saved count, pagesVisited, the numbers of unique job URLs and page URLs
\* and the number of failed URLs as they stand, and after a fatal error
\* also the error message and the status FAILED
FinalSummary ==
    phase = "exit" =>
        /\ {"jobsSaved", "pagesVisited", "uniqueJobUrls", "uniquePageUrls",
            "failedUrls"} \subseteq OUTPUT.keys
        /\ OUTPUT.jobsSaved = saved
        /\ OUTPUT.pagesVisited = pagesVisited
        /\ OUTPUT.uniqueJobUrls = Cardinality(seenJobUrls)
        /\ OUTPUT.uniquePageUrls = Cardinality(seenPageUrls)
        /\ OUTPUT.failedUrls = Cardinality(failedUrls)
        /\ OUTPUT.status = "FAILED"
             => {"error", "status"} \subseteq OUTPUT.keys

\* C16: retry cap: when failedRequestHandler has run for a request, its URL
\* is in failedUrls whatever the failure kind and whether or not it carries
\* a seed, and the handler hands no new request for that URL to the queue
RetryCap ==
    [][/\ \A r \in Range(requestQueue) :
            ((\E k \in Kinds : failedRequestHandler(r, k))
             \/ failedRequestHandlerM(r))
            => /\ \/ r.url \in failedUrls'
                  \/ \E g \in running' \ running :
                        g.req = r /\ g.pc = "failSave"
               /\ \A q \in Added : q.url # r.url
       /\ \A h \in running :
            failedSaveDone(h)
            => /\ h.req.url \in failedUrls'
               /\ \A q \in Added : q.url # h.req.url]_vars

\* C20: after a failure that is neither 403/429/blocked nor a timeout nor a
\* network error, the URL is in failedUrls and the handler hands no new
\* request for that URL to the queue, for listing and detail URLs alike
UnclassifiedIsFinal ==
    [][/\ \A r \in Range(requestQueue) :
            failedRequestHandler(r, "other")
            => /\ \/ r.url \in failedUrls'
                  \/ \E g \in running' \ running :
                        g.req = r /\ g.pc = "failSave" /\ g.kind = "other"
               /\ \A q \in Added : q.url # r.url
       /\ \A h \in running :
            (failedSaveDone(h) /\ h.kind = "other")
            => /\ h.req.url \in failedUrls'
               /\ \A q \in Added : q.url # h.req.url]_vars

\* C19: a listing dispatch that takes pagesVisited past MAX_PAGES, quota
\* unmet, enqueues no next page but still extracts the job links of its
\* page: the handler goes on past the budget check into the extraction and
\* the awaits that follow it, and every link of the page is then known
OverBudgetStillExtracts ==
    [][\A r \in Range(requestQueue) :
          (/\ \/ \E k \in Kinds : listPage(r, TRUE, k)
              \/ listPageM(r)
           /\ saved < RESULTS_WANTED
           /\ pagesVisited + 1 > MAX_PAGES)
          => /\ \A q \in Added : q.url.t # "L"
             /\ \E g \in running' \ running :
                   /\ g.req = r
                   /\ g.pc \in {"listDelay", "listSave", "listDelayM"}
             /\ variant = "part0"
                  => \A j \in Range(Links(PageOf(r.url))) :
                        JobUrl(j) \in seenJobUrls' \cup failedUrls]_vars

\* C17: pagesVisited counts the listing dispatches: every listing request
\* handed to requestHandler raises it by exactly one whatever the outcome,
\* and no other step changes it
PagesVisitedCountsDispatches ==
    [][IF \E r \in Range(requestQueue) :
             \/ \E ok \in BOOLEAN, k \in Kinds : listPage(r, ok, k)
             \/ listPageM(r)
       THEN pagesVisited' = pagesVisited + 1
       ELSE pagesVisited' = pagesVisited]_vars

\* C18: a request handed to requestHandler when saved >= RESULTS_WANTED is
\* dropped: saved, pagesVisited, the seen, failed and saved URL sets, the
\* dataset and the rest of the queue stay as they are, and no handler is
\* left running for it
QuotaMetNoOp ==
    [][\A r \in Range(requestQueue) :
          (/\ saved >= RESULTS_WANTED
           /\ \/ \E ok \in BOOLEAN, k \in Kinds : listPage(r, ok, k)
              \/ \E b \in DetailBodies : detailPage(r, b)
              \/ listPageM(r)
              \/ \E b \in DetailBodies : detailPageM(r, b))
          => /\ UNCHANGED <<saved, pagesVisited, seenJobUrls, seenPageUrls,
                            failedUrls, savedJobUrls, dataset, running>>
             /\ requestQueue' = Tail(requestQueue)]_vars

PaginationRecovery ==
    \A p \in 1..(MAX_PAGES - 1) :
        (BagIn(LogKey(ListUrl(p), "exhausted"), enqueued)
         /\ saved < RESULTS_WANTED)
        ~> (/\ \/ BagIn(LogKey(ListUrl(p + 1), "default"), enqueued)
               \/ BagIn(LogKey(ListUrl(p + 1), "fallback"), enqueued)
            /\ \A i \in 1..Len(requestQueue) :
                  requestQueue[i].url # ListUrl(p + 1))

\* C23: no listing-page URL is ever in failedUrls, whatever kind and number
\* of failures it suffered; failedUrls holds detail URLs only
ListingNeverFailed == \A u \in failedUrls : u.t # "L"

\* C24: detail failure fallback: when failedRequestHandler runs for a detail
\* request that carries a seed, with collectDetails set, it pushes exactly
\* one record built from the seed if the seed has a title, the quota is
\* unmet and the job_url is not yet saved, and the URL is in failedUrls once
\* the save completes; when the save is refused nothing is pushed and the
\* fallback does not mark the URL failed (only the unclassified branch
\* does); the fallback never starts for a URL that is failed or for which
\* it is running, and never leaves two copies of its record
DetailFailureFallback ==
    [][/\ \A r \in Range(requestQueue) :
            (/\ \E k \in Kinds : failedRequestHandler(r, k)
             /\ r.url.t = "J" /\ collectDetails /\ r.seed.present)
            => LET rec == [title |-> r.seed.title, company |-> r.seed.company,
                           job_type |-> Null, job_category |-> Null,
                           description_html |-> Null,
                           description_text |-> Null, job_url |-> r.url]
                   started == \E g \in running' \ running :
                                 g.req = r /\ g.pc = "failSave" /\ g.rec = rec
               IN IF /\ r.seed.title \notin {Null, ""}
                     /\ saved < RESULTS_WANTED /\ r.url \notin savedJobUrls
                  THEN /\ dataset' = dataset (+) SetToBag({rec})
                       /\ started
                       /\ r.url \notin failedUrls
                       /\ \A g \in running : g.req.url # r.url
                  ELSE /\ dataset' = dataset /\ ~started
                       /\ failedRequestHandler(r, "blocked")
                            => failedUrls' = failedUrls
       /\ \A h \in running :
            failedSaveDone(h)
            => /\ saved' = saved + 1 /\ dataset' = dataset
               /\ h.req.url \in failedUrls'
               /\ h.rec.job_url \in savedJobUrls'
       /\ \A j \in Jobs :
            CopiesIn([title |-> "T-seed",
                      company |-> IF j = 2 THEN "C-seed" ELSE Null,
                      job_type |-> Null, job_category |-> Null,
                      description_html |-> Null, description_text |-> Null,
                      job_url |-> [t |-> "J", n |-> j]], dataset') <= 1]_vars

\* the fallback of a failed detail page has saved its seed record and
\* marked the URL failed
DetailFailureFallbackWitness ==
    /\ variant = "part0" /\ collectDetails /\ saved = 1
    /\ \E j \in Jobs :
          /\ JobUrl(j) \in failedUrls /\ JobUrl(j) \in savedJobUrls
          /\ BagIn(fallbackRecord(SeedOf(j), JobUrl(j)), dataset)
          /\ LoadedUrl(JobUrl(j)) # JobUrl(j)

\* C25: failure kind to session action: every error gets one action; a
\* 403/429/blocked error retires the session and is followed by the block
\* delay, also when its message matches a timeout or a socket error; a
\* timeout or socket error that is not blocked marks the session bad,
\* without retiring it, and is followed by a delay shorter than the block
\* delay; an error of no kind leaves the session alone
FailureKindToSessionAction ==
    (arg.op = "failure" /\ result.op = "failure") =>
        LET blocked == arg.statusCode \in {403, 429}
                       \/ "blocked" \in arg.message
            timeoutOrSocket == arg.message \cap {"timeout", "ECONNRESET"} # {}
            network == arg.message \cap {"NGHTTP2", "ENOTFOUND"} # {}
            act == result.act
        IN /\ act.session \in {"retire", "markBad", "none"}
           /\ blocked => act.session = "retire" /\ act.delay = <<5000, 9000>>
           /\ (~blocked /\ timeoutOrSocket)
                => /\ act.session = "markBad"
                   /\ act.delay[1] > 0 /\ act.delay[2] < 5000
           /\ (~blocked /\ ~timeoutOrSocket /\ ~network)
                => act.session = "none"

\* an error that is both blocked and a socket error retired the session
FailureKindToSessionActionWitness ==
    /\ arg.op = "failure" /\ result.op = "failure"
    /\ {"blocked", "ECONNRESET"} \subseteq arg.message
    /\ result.act.session = "retire"

\* C26: recordSaved is one atomic step: whenever no handler is between the
\* checks of saveJobRecord and its insert and increment, saved is the size
\* of savedJobUrls and the number of records of the dataset
SaveAtomic ==
    (\A h \in running :
        h.pc \notin {"failSave", "listSave", "saveFallback", "saveDetail"})
        => /\ saved = Cardinality(savedJobUrls)
           /\ saved = BagCardinality(dataset)

\* the requests that are pending in the queue or held by a handler that has
\* not yet failed for good, as a sequence
LiveTargets ==
    LET SetToSeq0[S \in SUBSET running] ==
            IF S = {} THEN <<>>
            ELSE LET h == CHOOSE x \in S : TRUE
                 IN <<h.req>> \o SetToSeq0[S \ {h}]
    IN requestQueue \o SetToSeq0[{h \in running : h.pc # "failSave"}]

CrawlStateOnlyGrows ==
    [][/\ saved' >= saved
       /\ pagesVisited' >= pagesVisited
       /\ seenJobUrls \subseteq seenJobUrls'
       /\ seenPageUrls \subseteq seenPageUrls'
       /\ failedUrls \subseteq failedUrls'
       /\ savedJobUrls \subseteq savedJobUrls'
       /\ dataset \sqsubseteq dataset']_vars

\* every counter and every set of the crawl state has grown, and the
\* dataset holds two records
CrawlStateOnlyGrowsWitness ==
    /\ saved > 0 /\ pagesVisited > 0
    /\ seenJobUrls # {} /\ failedUrls # {} /\ savedJobUrls # {}
    /\ BagCardinality(dataset) >= 2

\* C29, as stated: the resolver returns a URL for every listing page: the
\* href of an anchor whose text signals Next if some such anchor carries an
\* href, otherwise the href of the first anchor for page currentPage + 1,
\* otherwise the current URL with page = currentPage + 1
NextPageResolverAnyNext ==
    (arg.op = "nextPage" /\ result.op = "nextPage") =>
        LET as == arg.anchors
            nexts == {i \in 1..Len(as) : as[i].next /\ as[i].href # NoUrl}
            nums == {i \in 1..Len(as) :
                        as[i].href # NoUrl /\ as[i].href.n # 0
                        /\ as[i].href.n = PageOf(arg.url) + 1}
            firstNum == CHOOSE i \in nums : \A j \in nums : i <= j
        IN /\ result.url # NoUrl
           /\ IF nexts # {} THEN \E i \in nexts : result.url = as[i].href
              ELSE IF nums # {} THEN result.url = as[firstNum].href
              ELSE result.url = ListUrl(PageOf(arg.url) + 1)

\* C29, amended: the resolver returns a URL for every listing page: the href
\* of the first anchor whose text contains Next if that anchor carries an
\* href, otherwise the href of the first anchor for page currentPage + 1,
\* otherwise the current URL with page = currentPage + 1
NextPageResolver ==
    (arg.op = "nextPage" /\ result.op = "nextPage") =>
        LET as == arg.anchors
            nexts == {i \in 1..Len(as) : as[i].next}
            firstNext == CHOOSE i \in nexts : \A j \in nexts : i <= j
            nums == {i \in 1..Len(as) :
                        as[i].href # NoUrl /\ as[i].href.n # 0
                        /\ as[i].href.n = PageOf(arg.url) + 1}
            firstNum == CHOOSE i \in nums : \A j \in nums : i <= j
        IN /\ result.url # NoUrl
           /\ IF nexts # {} /\ as[firstNext].href # NoUrl
              THEN result.url = as[firstNext].href
              ELSE IF nums # {} THEN result.url = as[firstNum].href
              ELSE result.url = ListUrl(PageOf(arg.url) + 1)

\* a page whose first anchor is a numbered link to the next page and whose
\* second anchor is a Next button to another page: the button was used
NextPageResolverWitness ==
    /\ arg.op = "nextPage" /\ result.op = "nextPage"
    /\ Len(arg.anchors) = 2
    /\ ~arg.anchors[1].next /\ arg.anchors[1].href = ListUrl(PageOf(arg.url) + 1)
    /\ arg.anchors[2].next /\ arg.anchors[2].href # NoUrl
    /\ arg.anchors[2].href # arg.anchors[1].href
    /\ result.url = arg.anchors[2].href

\* C30: page numbers strictly increase along pagination: the next page a
\* listing page enqueues has a page number (as main.js derives it: 2 when
\* the URL has no page parameter) greater than the page number of the
\* listing page itself
PageNumbersIncrease ==
    (arg.op = "enqueueNext" /\ result.op = "enqueueNext"
     /\ result.next # NoUrl)
        => nextPageNumM(result.next) > PageOf(arg.url)

\* C31: structured-data lookup: the items of the blocks that parse, in
\* document order, are scanned for the first one typed JobPosting; a block
\* without content, a block that does not parse and a block without a
\* JobPosting are passed over and the blocks after them are still scanned;
\* null is returned only when no block that parses holds a JobPosting
JsonLdFirstPosting ==
    (arg.op = "jsonLd" /\ result.op = "jsonLd") =>
        LET bs == arg.scripts
            hits == {<<i, j>> \in (1..Len(bs)) \X (1..MaxItems) :
                        /\ bs[i].kind = "parsed" /\ j <= Len(bs[i].items)
                        /\ bs[i].items[j].type \in {"JobPosting", "[JobPosting]"}}
            first == CHOOSE h \in hits :
                        \A g \in hits : h[1] < g[1] \/ (h[1] = g[1] /\ h[2] <= g[2])
        IN IF hits = {} THEN ~result.jsonLd.found
           ELSE /\ result.jsonLd.found
                /\ result.jsonLd.title = bs[first[1]].items[first[2]].title

\* a block that does not parse came first and the JobPosting of the block
\* after it was returned, passing over a null item and an item of another
\* type
JsonLdFirstPostingWitness ==
    /\ arg.op = "jsonLd" /\ result.op = "jsonLd"
    /\ Len(arg.scripts) = 2
    /\ arg.scripts[1].kind = "malformed"
    /\ arg.scripts[2].kind = "parsed" /\ Len(arg.scripts[2].items) = 2
    /\ arg.scripts[2].items[1].type \in {"null", "Other"}
    /\ arg.scripts[2].items[2].type = "[JobPosting]"
    /\ result.jsonLd = [found |-> TRUE, title |-> "B"]

\* C32: first non-empty match: pickText returns the trimmed text of the
\* first selector whose text is not empty once trimmed and evaluates no
\* selector after it; a selector that matches nothing, yields only
\* whitespace or throws is passed over; the result is null exactly when no
\* selector yields non-empty text
FirstNonEmptyMatch ==
    (arg.op = "pickText" /\ result.op = "pickText") =>
        LET ss == arg.selectors
            good == {i \in 1..Len(ss) :
                        ss[i].kind = "text" /\ ss[i].text \notin {"", " "}}
            first == CHOOSE i \in good : \A j \in good : i <= j
        IN IF good = {}
           THEN result.picked = [text |-> Null, evaluated |-> Len(ss)]
           ELSE /\ result.picked.text
                     = (IF ss[first].text = " C " THEN "C" ELSE ss[first].text)
                /\ result.picked.text \notin {Null, "", " ", " C "}
                /\ result.picked.evaluated = first

\* a selector that throws and one that yields whitespace were passed over,
\* the third one gave the text, trimmed
FirstNonEmptyMatchWitness ==
    /\ arg.op = "pickText" /\ result.op = "pickText"
    /\ Len(arg.selectors) = 3
    /\ arg.selectors[1].kind = "throws"
    /\ arg.selectors[2] = [kind |-> "text", text |-> " "]
    /\ arg.selectors[3] = [kind |-> "text", text |-> " C "]
    /\ result.picked = [text |-> "C", evaluated |-> 3]

\* C33: concurrency range: whatever the caller passes as maxConcurrency and
\* minConcurrency, the values given to the crawler satisfy floor <=
\* minConcurrency <= maxConcurrency <= ceiling, the floor (2 in part_000, 1
\* in main.js) and the ceiling (12) being fixed numbers (values in tenths)
ConcurrencyRange ==
    (arg.op = "concurrency" /\ result.op = "concurrency") =>
        /\ (IF arg.rev = "part0" THEN 20 ELSE 10) <= result.minConcurrency
        /\ result.minConcurrency <= result.maxConcurrency
        /\ result.maxConcurrency <= 120

\* a caller who asks for a minimum above the maximum, and for a maximum
\* below the floor, gets the floor for both
ConcurrencyRangeWitness ==
    /\ arg.op = "concurrency" /\ result.op = "concurrency"
    /\ arg.rev = "part0"
    /\ arg.inputMaxConcurrency = [finite |-> TRUE, tenths |-> 0]
    /\ arg.inputMinConcurrency = [finite |-> TRUE, tenths |-> 10000]
    /\ result.minConcurrency = 20 /\ result.maxConcurrency = 20

\* C34: retry backoff: before a fetch with retryCount r >= 1 the hook waits
\* at least the backoff base min(1000 * 2^r + jitter, 10000) ms, jitter in
\* [0, 1000), a base that never exceeds 10000 ms, and a retry never waits
\* less than a first attempt of the same revision can wait
RetryBackoff ==
    (arg.op = "hook" /\ result.op = "hook" /\ arg.retryCount >= 1) =>
        LET jitter == IF arg.u1 = "lo" THEN 0
                      ELSE IF arg.u1 = "mid" THEN 500 ELSE 999
            pow == [r \in 1..maxRequestRetries |->
                       IF r = 1 THEN 2 ELSE IF r = 2 THEN 4
                       ELSE IF r = 3 THEN 8 ELSE 16]
            raw == 1000 * pow[arg.retryCount] + jitter
            base == IF raw <= 10000 THEN raw ELSE 10000
        IN /\ base <= 10000
           /\ result.waited >= base
           /\ \A v1, v2 \in Draws :
                  hookDelay(arg.rev, 0, v1, v2) <= result.waited

OneBranchPerDispatch ==
    (arg.op = "classify" /\ result.op = "classify")
        => Cardinality(result.branches) <= 1

\* C37: no discovered job is silently lost: once the listing handlers have
\* run to their end without an error (none is running, no listing request
\* waits for a retry, nothing has failed), every job URL in the seen-job set
\* has been handed to the queue as a detail target or a record with that
\* job_url has been saved
NoJobSilentlyLost ==
    ( /\ \A h \in running : h.req.url.t # "L"
      /\ \A i \in 1..Len(requestQueue) : requestQueue[i].url.t # "L"
      /\ failedUrls = {}
      /\ ~ \E e \in BagToSet(enqueued) : e.key \in {"fallback", "exhausted"} ) =>
        \A u \in seenJobUrls :
            \/ BagIn(LogKey(u, "default"), enqueued)
            \/ \E rec \in BagToSet(dataset) : rec.job_url = u

\* C38: pagination progress: when the pagination block of main.js runs for
\* a listing page numbered p < MAX_PAGES (saved < RESULTS_WANTED and
\* pagesVisited < MAX_PAGES hold, the block is entered), it enqueues a
\* listing target for a page greater than p unless the page p + 1 URL is
\* already in seenPageUrls, whatever href the anchors of the page carry
PaginationProgress ==
    (arg.op = "enqueueNext" /\ result.op = "enqueueNext" /\ arg.rev = "main"
     /\ PageOf(arg.url) < MAX_PAGES /\ ~arg.seenNext)
        => (result.next # NoUrl /\ PageOf(result.next) > PageOf(arg.url))

====
